---- MODULE Spec2Model ----
(***************************************************************************)
(* Model of the whisperia recording/transcription orchestration:           *)
(*   - AppState (src-tauri/src/lib.rs): the status store, its mutex and    *)
(*     its accessors,                                                      *)
(*   - trigger_transcription_flow and the worker thread it spawns,         *)
(*   - the stop_recording command.                                         *)
(* Spec      : the Tauri trigger path; every AppState accessor is one      *)
(*             atomic step (each takes the status mutex for its body).     *)
(* SpecFair  : Spec plus the fairness the thread scheduler gives.          *)
(* SpecStore : the AppState accessors at the grain of lock / field write / *)
(*             unlock, called in any order by concurrent clients.          *)
(* SpecDaemon: the event loop of the CLI daemon (src/main.rs, run_daemon). *)
(* SpecCapture: one call of AudioRecorder::record_for_seconds (audio.rs)   *)
(*             with the capture callback of the device thread.             *)
(* SpecResample: one call of AudioRecorder::resample (audio.rs), in the    *)
(*             f64 and f32 arithmetic of the code.                         *)
(* SpecLocks : the accessors of AppState, update_config and clone at the   *)
(*             grain of the acquisition and release of its four mutexes.   *)
(* SpecHardware: one call of HardwareDetector::check_huggingface_model     *)
(*             (src-tauri/src/hardware/mod.rs).                            *)
(***************************************************************************)
EXTENDS Integers, FiniteSets, Sequences, Bags, TLC

\* ---------------------------------------------------------------- bounds
\* worker threads that may exist at the same time
MaxWorkers == 2
\* concurrent clients of the AppState accessors in SpecStore and SpecLocks
MaxClients == 2
\* events waiting in the daemon's channel
MaxQueue == 2
\* seconds asked of record_for_seconds
MaxSeconds == 2
\* samples the device passes to one invocation of the capture callback
MaxChunk == 2
\* samples the device delivers during one recording
MaxFrames == 5
\* stream errors the device reports during one recording
MaxStreamErrors == 1
\* samples of the input of resample
MaxInput == 11
\* samples of the output of resample, were its length computed exactly
MaxOutput == 15
\* available memory of the machine, in GB
MaxMemoryGb == 8

\* ------------------------------------------------------------- constants
None == "None"
\* texts the transcriber can return
Texts == {"hello world", "ola"}
\* positions inside trigger_transcription_flow
TriggerPcs == {"guard", "guard2", "show", "set_recording", "spawn"}
Clients == 1..MaxClients

\* the steps of a run that the worker attempts
Steps == {"record", "transcribe", "inject"}

\* where the external calls of one run fail ("none": they all succeed)
FailPoints == {"model", "load", "transcribe", "injector", "type", "none"}
\* what follows a successful capture in the external world: the first call
\* that fails and the text the transcriber returns when it is reached (one
\* text for the runs whose injection fails, the other for the run that types)
Worlds ==
    [failAt : {"model", "load", "transcribe"}, text : {None}]
    \cup [failAt : {"injector", "type"}, text : {"ola"}]
    \cup [failAt : {"none"}, text : {"hello world"}]

VARIABLES
    status,      \* AppState.status of the managed instance
    audio_data,  \* AppState.audio_data of the managed instance
    overlay,     \* TRUE iff the overlay window is shown
    calls,       \* number of threads (hotkey listener, tray and menu handlers,
                 \* start_recording) at each position of trigger_transcription_flow
    ret,         \* the return of trigger_transcription_flow taken last and its value
    spc,         \* position of the stop_recording command
    workers,     \* the bag of live worker threads, each with its position (pc),
                 \* its state_clone (clone), how its capture went (capture),
                 \* the notifications it has emitted (notes) and how many
                 \* times it has called each step (tries)
    world,       \* the external world after capture: model, transcriber, injector
    lock,        \* SpecStore: the client holding the status mutex, 0 when free
    kpc,         \* SpecStore: position of each client inside its accessor
    kop,         \* SpecStore: the accessor (and argument) a client is running
    snap,        \* SpecStore: the AppStatus the last get_status returned
    event_rx,    \* SpecDaemon: the AppEvents waiting in the channel, oldest first
    dpc,         \* SpecDaemon: position of the thread running run_daemon
    dret,        \* SpecDaemon: what run_daemon returned, "none" while it runs
    recorder,    \* SpecCapture: the AudioRecorder (sample_format, sample_rate)
    seconds,     \* SpecCapture: the argument of record_for_seconds
    samples_needed,   \* SpecCapture: the local of that name
    recorded_samples, \* SpecCapture: the Vec behind the Arc<Mutex<..>>
    stream,      \* SpecCapture: the input stream: none, built, playing, dropped
    delivered,   \* SpecCapture: samples the device has passed to the callback
    stderr,      \* SpecCapture: lines err_fn has printed
    rpc,         \* SpecCapture: position inside record_for_seconds
    rret,        \* SpecCapture: what record_for_seconds returned
    resample_input,  \* SpecResample: the argument input
    resample_from,   \* SpecResample: the argument from_rate
    resample_to,     \* SpecResample: the argument to_rate
    resampled,       \* SpecResample: what resample returned
    config,      \* AppState.config of the managed instance
    disk,        \* the configuration in config.toml
    hotkey_manager,  \* AppState.hotkey_manager of the managed instance
    owner,       \* SpecLocks: the thread holding each mutex, 0 when free
    apc,         \* SpecLocks: position of each thread inside its call
    aop,         \* SpecLocks: the call (and argument) a thread is running
    hf_model_id,     \* SpecHardware: the words of the argument model_id
    hf_total_kib,    \* SpecHardware: size of the weight files the API lists
    available_memory_gb,  \* SpecHardware: sysinfo's available memory
    compatibility    \* SpecHardware: what check_huggingface_model returned

vars == <<status, audio_data, overlay, calls, ret, spc, workers, world,
          lock, kpc, kop, snap, event_rx, dpc, dret,
          recorder, seconds, samples_needed, recorded_samples, stream,
          delivered, stderr, rpc, rret,
          resample_input, resample_from, resample_to, resampled,
          config, disk, hotkey_manager, owner, apc, aop,
          hf_model_id, hf_total_kib, available_memory_gb, compatibility>>
pipeVars == <<status, audio_data, overlay, calls, ret, spc, workers, world>>
storeVars == <<lock, kpc, kop, snap>>
daemonVars == <<event_rx, dpc, dret>>
captureVars == <<recorder, seconds, samples_needed, recorded_samples, stream,
                 delivered, stderr, rpc, rret>>
resampleVars == <<resample_input, resample_from, resample_to, resampled>>
lockVars == <<config, disk, hotkey_manager, owner, apc, aop>>
hardwareVars == <<hf_model_id, hf_total_kib, available_memory_gb, compatibility>>

\* ------------------------------------------------------------- AppState
AppStatus == [is_recording : BOOLEAN, is_transcribing : BOOLEAN,
              last_result : Texts \cup {None}]

AppState_new ==
    [is_recording |-> FALSE, is_transcribing |-> FALSE, last_result |-> None]

get_status(s) == s

set_recording(s, recording) == [s EXCEPT !.is_recording = recording]

set_transcribing(s, transcribing) == [s EXCEPT !.is_transcribing = transcribing]

set_result(s, result) ==
    [s EXCEPT !.last_result = result,
              !.is_transcribing = FALSE,
              !.is_recording = FALSE]

\* impl Clone for AppState: a new instance holding a copy of the status and
\* an empty audio_data
AppState_clone(s) == [status |-> get_status(s), audio_data |-> None]


\* the phase the spec reads off the two flags
Phase(s) ==
    IF s.is_recording THEN "Recording"
    ELSE IF s.is_transcribing THEN "Transcribing"
    ELSE "Idle"

\* ------------------------------------------------ helpers on the threads
\* threads that hold or will need a worker slot
Busy == BagCardinality(workers)
        + calls["guard"] + calls["guard2"] + calls["show"]
        + calls["set_recording"] + calls["spawn"]

\* ---------------------------------------- trigger_transcription_flow
\* one invocation moves from position "from" to position "to"
Move(from, to) == [calls EXCEPT ![from] = @ - 1, ![to] = @ + 1]

\* T_reject as it would be if the skip were reported as an error
T_reject_busy(from) ==
    /\ calls' = [calls EXCEPT ![from] = @ - 1]
    /\ ret' = [path |-> "skipped", value |-> "Busy"]
    /\ UNCHANGED <<status, audio_data, overlay, spc, workers, world>>

\* T_reject as it would be if the skip also reset the state, as
\* stop_recording does
T_reject_reset(from) ==
    /\ calls' = [calls EXCEPT ![from] = @ - 1]
    /\ ret' = [path |-> "skipped", value |-> "Ok"]
    /\ status' = set_recording(status, FALSE)
    /\ overlay' = FALSE
    /\ UNCHANGED <<audio_data, spc, workers, world>>

\* lib.rs 305-306: "Already recording or transcribing, skipping"
T_reject(from) ==
    /\ calls' = [calls EXCEPT ![from] = @ - 1]
    /\ ret' = [path |-> "skipped", value |-> "Ok"]
    /\ UNCHANGED <<status, audio_data, overlay, spc, workers, world>>

\* lib.rs 298-301: a thread enters trigger_transcription_flow
T_call ==
    /\ Busy < MaxWorkers
    /\ calls' = [calls EXCEPT !["guard"] = @ + 1]
    /\ UNCHANGED <<status, audio_data, overlay, ret, spc, workers, world>>
    /\ UNCHANGED <<storeVars, daemonVars, captureVars, resampleVars, lockVars, hardwareVars>>

\* lib.rs 304, left operand of ||: the first get_status()
T_guard_recording ==
    /\ calls["guard"] > 0
    /\ IF get_status(status).is_recording
         THEN T_reject("guard")
         ELSE /\ calls' = Move("guard", "guard2")
              /\ UNCHANGED <<status, audio_data, overlay, ret, spc, workers, world>>
    /\ UNCHANGED <<storeVars, daemonVars, captureVars, resampleVars, lockVars, hardwareVars>>

\* lib.rs 304, right operand of ||: the second get_status()
T_guard_transcribing ==
    /\ calls["guard2"] > 0
    /\ IF get_status(status).is_transcribing
         THEN T_reject("guard2")
         ELSE /\ calls' = Move("guard2", "show")
              /\ UNCHANGED <<status, audio_data, overlay, ret, spc, workers, world>>
    /\ UNCHANGED <<storeVars, daemonVars, captureVars, resampleVars, lockVars, hardwareVars>>

\* lib.rs 310-319: show the overlay, emit "Recording..." to it
T_show_overlay ==
    /\ calls["show"] > 0
    /\ overlay' = TRUE
    /\ calls' = Move("show", "set_recording")
    /\ UNCHANGED <<status, audio_data, ret, spc, workers, world>>
    /\ UNCHANGED <<storeVars, daemonVars, captureVars, resampleVars, lockVars, hardwareVars>>

\* lib.rs 322: state.set_recording(true)
T_set_recording ==
    /\ calls["set_recording"] > 0
    /\ status' = set_recording(status, TRUE)
    /\ calls' = Move("set_recording", "spawn")
    /\ UNCHANGED <<audio_data, overlay, ret, spc, workers, world>>
    /\ UNCHANGED <<storeVars, daemonVars, captureVars, resampleVars, lockVars, hardwareVars>>

\* lib.rs 325-329 and 461: clone the state, spawn the worker, return Ok(())
T_spawn ==
    /\ calls["spawn"] > 0
    /\ workers' = workers (+) SetToBag({[pc |-> "new",
                                         clone |-> AppState_clone(status),
                                         capture |-> "pending",
                                         notes |-> {},
                                         tries |-> [s \in Steps |-> 0]]})
    /\ calls' = [calls EXCEPT !["spawn"] = @ - 1]
    /\ ret' = [path |-> "started", value |-> "Ok"]
    /\ UNCHANGED <<status, audio_data, overlay, spc, world>>
    /\ UNCHANGED <<storeVars, daemonVars, captureVars, resampleVars, lockVars, hardwareVars>>

\* ----------------------------------------------------- stop_recording
\* lib.rs 193: state.set_recording(false)
S_set_recording ==
    /\ spc = "idle"
    /\ status' = set_recording(status, FALSE)
    /\ spc' = "set_transcribing"
    /\ UNCHANGED <<audio_data, overlay, calls, ret, workers, world>>
    /\ UNCHANGED <<storeVars, daemonVars, captureVars, resampleVars, lockVars, hardwareVars>>

\* lib.rs 194: state.set_transcribing(false)
S_set_transcribing ==
    /\ spc = "set_transcribing"
    /\ status' = set_transcribing(status, FALSE)
    /\ spc' = "hide"
    /\ UNCHANGED <<audio_data, overlay, calls, ret, workers, world>>
    /\ UNCHANGED <<storeVars, daemonVars, captureVars, resampleVars, lockVars, hardwareVars>>

\* lib.rs 195 and 464-469: hide_overlay_window
S_hide_overlay ==
    /\ spc = "hide"
    /\ overlay' = FALSE
    /\ spc' = "idle"
    /\ UNCHANGED <<status, audio_data, calls, ret, workers, world>>
    /\ UNCHANGED <<storeVars, daemonVars, captureVars, resampleVars, lockVars, hardwareVars>>

\* ------------------------------------ the worker thread (lib.rs 329-459)
\* worker r takes a step and becomes r2
Step(r, r2) == (workers (-) SetToBag({r})) (+) SetToBag({r2})

Emit(r, names) == [r EXCEPT !.notes = @ \cup names]

\* the worker calls the step
Try(r, step) == [r EXCEPT !.tries[step] = @ + 1]

\* FailNotes as it would be if a failing exit only updated the status text
FailNotes_silent(r) == Emit(r, {"Error"})

\* every failing exit emits "status-update" (an error text) and
\* "transcription-error", then hides the overlay
FailNotes(r) == Emit(r, {"Error", "transcription-error"})

\* lib.rs 333-341 and 451-457: the failing exits of the capture. The worker
\* emits, hides the overlay, calls state_clone.set_recording(false) and returns
CaptureFail(r, how) ==
    [FailNotes(r) EXCEPT !.capture = how,
                         !.clone.status = set_recording(@, FALSE),
                         !.pc = "done"]

\* lib.rs 333-346, audio.rs 15-37 and 50-86: AudioRecorder::new(), then
\* record_for_seconds builds and plays the input stream; either can fail
W_record_start(r) ==
    /\ r.pc = "new"
    /\ \E how \in {"no_recorder", "record_error", "ok"} :
         IF how = "ok"
           THEN /\ workers' = Step(r, [Try(r, "record") EXCEPT !.pc = "recording"])
                /\ UNCHANGED overlay
           ELSE /\ workers' = Step(r, CaptureFail(IF how = "record_error"
                                                    THEN Try(r, "record") ELSE r,
                                                  how))
                /\ overlay' = FALSE
    /\ UNCHANGED <<status, audio_data, calls, ret, spc, world>>
    /\ UNCHANGED <<storeVars, daemonVars, captureVars, resampleVars, lockVars, hardwareVars>>

\* audio.rs 89-102 and lib.rs 347-353: the stream is dropped, the samples
\* are returned; state_clone.store_audio(data); emit "Transcribing..."
W_record_end(r) ==
    /\ r.pc = "recording"
    /\ workers' = Step(r, [Emit(r, {"Transcribing..."}) EXCEPT
                             !.capture = "ok",
                             !.clone.audio_data = "samples",
                             !.pc = "set_recording"])
    /\ UNCHANGED <<status, audio_data, overlay, calls, ret, spc, world>>
    /\ UNCHANGED <<storeVars, daemonVars, captureVars, resampleVars, lockVars, hardwareVars>>

\* P_fail as it would be if the failing exit wrote its message into
\* last_result
P_fail_stored(r) ==
    /\ workers' = Step(r, [FailNotes(r) EXCEPT !.pc = "clear_transcribing"])
    /\ overlay' = FALSE
    /\ status' = [status EXCEPT !.last_result = "ola"]
    /\ UNCHANGED audio_data

\* P_fail as it would be if the failing exit left the overlay shown
P_fail_shown(r) ==
    /\ workers' = Step(r, [FailNotes(r) EXCEPT !.pc = "clear_transcribing"])
    /\ UNCHANGED <<status, audio_data, overlay>>

\* a failing exit of the "Process transcription" part: emit, hide the
\* overlay, then state.set_transcribing(false) and return
P_fail(r) ==
    /\ workers' = Step(r, [FailNotes(r) EXCEPT !.pc = "clear_transcribing"])
    /\ overlay' = FALSE
    /\ UNCHANGED <<status, audio_data>>

P_goto(r, pc) ==
    /\ workers' = Step(r, [r EXCEPT !.pc = pc])
    /\ UNCHANGED <<status, audio_data, overlay>>

\* lib.rs 356-357: state = app_clone.state(); state.set_recording(false)
P_set_recording(r) ==
    /\ status' = set_recording(status, FALSE)
    /\ workers' = Step(r, [r EXCEPT !.pc = "set_transcribing"])
    /\ UNCHANGED <<audio_data, overlay>>

\* lib.rs 358: state.set_transcribing(true)
P_set_transcribing(r) ==
    /\ status' = set_transcribing(status, TRUE)
    /\ workers' = Step(r, [r EXCEPT !.pc = "take_audio"])
    /\ UNCHANGED <<audio_data, overlay>>

\* lib.rs 361 and 86-89: state.take_audio() on the managed instance
P_take_audio(r) ==
    /\ audio_data' = None
    /\ workers' = Step(r, [r EXCEPT !.pc = IF audio_data = None THEN "no_audio"
                                          ELSE "get_model"])
    /\ UNCHANGED <<status, overlay>>

\* lib.rs 363-367: "No audio data available after recording"
P_no_audio(r) == P_fail(r)

\* lib.rs 374-385: get_config, get_model_path
P_get_model(r) ==
    IF world.failAt = "model" THEN P_fail(r) ELSE P_goto(r, "load")

\* lib.rs 390-400: Transcriber::new(&model_path)
P_load(r) ==
    IF world.failAt = "load" THEN P_fail(r) ELSE P_goto(r, "transcribe")

\* lib.rs 404-414: transcriber.transcribe(&audio_data, &config.language)
P_transcribe(r) ==
    /\ workers' = Step(r, IF world.failAt = "transcribe"
                            THEN [FailNotes(Try(r, "transcribe"))
                                    EXCEPT !.pc = "clear_transcribing"]
                            ELSE [Try(r, "transcribe") EXCEPT !.pc = "injector"])
    /\ overlay' = IF world.failAt = "transcribe" THEN FALSE ELSE overlay
    /\ UNCHANGED <<status, audio_data>>

\* lib.rs 419-429: InputSimulator::new()
P_injector(r) ==
    IF world.failAt = "injector" THEN P_fail(r) ELSE P_goto(r, "type")

\* lib.rs 431-434: input.type_text(&text); a failure is only warned about
P_type_text(r) ==
    /\ workers' = Step(r, [(IF world.failAt = "type"
                              THEN Emit(Try(r, "inject"), {"Error typing"})
                              ELSE Try(r, "inject"))
                           EXCEPT !.pc = "set_result"])
    /\ UNCHANGED <<status, audio_data, overlay>>

\* lib.rs 437: state.set_result(text.clone())
P_set_result(r) ==
    /\ status' = set_result(status, world.text)
    /\ workers' = Step(r, [r EXCEPT !.pc = "complete"])
    /\ UNCHANGED <<audio_data, overlay>>

\* lib.rs 440-445: emit the result to the frontend
P_complete(r) ==
    /\ workers' = Step(r, [Emit(r, {"transcription-update", "Ready",
                                    "transcription-complete"})
                           EXCEPT !.pc = "hide"])
    /\ UNCHANGED <<status, audio_data, overlay>>

\* lib.rs 448-449: sleep one second, then hide the overlay
P_hide(r) ==
    /\ overlay' = FALSE
    /\ workers' = Step(r, [r EXCEPT !.pc = "done"])
    /\ UNCHANGED <<status, audio_data>>

\* lib.rs 368-369, 382-383, 397-398, 411-412, 426-427:
\* state.set_transcribing(false); return
P_clear_transcribing(r) ==
    /\ status' = set_transcribing(status, FALSE)
    /\ workers' = Step(r, [r EXCEPT !.pc = "done"])
    /\ UNCHANGED <<audio_data, overlay>>

ProcessPcs == {"set_recording", "set_transcribing", "take_audio", "no_audio",
               "get_model", "load", "transcribe", "injector", "type",
               "set_result", "complete", "hide", "clear_transcribing"}

\* lib.rs 355-449, "Process transcription": one step of the Ok arm
W_process(r) ==
    /\ r.pc \in ProcessPcs
    /\ CASE r.pc = "set_recording" -> P_set_recording(r)
         [] r.pc = "set_transcribing" -> P_set_transcribing(r)
         [] r.pc = "take_audio" -> P_take_audio(r)
         [] r.pc = "no_audio" -> P_no_audio(r)
         [] r.pc = "get_model" -> P_get_model(r)
         [] r.pc = "load" -> P_load(r)
         [] r.pc = "transcribe" -> P_transcribe(r)
         [] r.pc = "injector" -> P_injector(r)
         [] r.pc = "type" -> P_type_text(r)
         [] r.pc = "set_result" -> P_set_result(r)
         [] r.pc = "complete" -> P_complete(r)
         [] r.pc = "hide" -> P_hide(r)
         [] r.pc = "clear_transcribing" -> P_clear_transcribing(r)
    /\ UNCHANGED <<calls, ret, spc, world>>
    /\ UNCHANGED <<storeVars, daemonVars, captureVars, resampleVars, lockVars, hardwareVars>>

\* lib.rs 459: the closure returns, the thread and its state_clone are gone
W_exit(r) ==
    /\ r.pc = "done"
    /\ workers' = workers (-) SetToBag({r})
    /\ UNCHANGED <<status, audio_data, overlay, calls, ret, spc, world>>
    /\ UNCHANGED <<storeVars, daemonVars, captureVars, resampleVars, lockVars, hardwareVars>>

\* ------------------------------------------------------ specification
\* run_daemon has reached its event loop and nothing has been sent yet
DaemonReady ==
    /\ event_rx = <<>>
    /\ dpc = "recv"
    /\ dret = "none"

\* no call of record_for_seconds has started
CaptureIdle ==
    /\ recorder = [sample_format |-> "F32", sample_rate |-> 1]
    /\ seconds = 0
    /\ samples_needed = 0
    /\ recorded_samples = <<>>
    /\ stream = "none"
    /\ delivered = 0
    /\ stderr = 0
    /\ rpc = "call"
    /\ rret = [result |-> "none", error |-> "none", samples |-> <<>>,
               resample |-> <<>>]

\* no call of resample has started
ResampleIdle ==
    /\ resample_input = <<>>
    /\ resample_from = 16000
    /\ resample_to = 16000
    /\ resampled = [result |-> "none", output |-> <<>>]

\* check_huggingface_model has not returned
NotChecked == [result |-> "none"]

\* no call of check_huggingface_model has started
HardwareIdle ==
    /\ hf_model_id = {}
    /\ hf_total_kib = 0
    /\ available_memory_gb = 0
    /\ compatibility = NotChecked

\* the four mutexes of AppState (lib.rs 36-41)
Mutexes == {"status", "config", "audio_data", "hotkey_manager"}

\* the Config values: Config::default() has language "pt" (config/mod.rs 42)
Configs == {[language |-> "pt"], [language |-> "en"]}

\* config.toml after a std::fs::write that failed part-way
Partial == [truncated |-> TRUE]

\* the accessors of impl AppState, update_config with its argument, and
\* Clone::clone
LockOps ==
    {<<op>> : op \in {"get_status", "set_recording", "set_transcribing",
                      "set_result", "store_audio", "take_audio", "get_config",
                      "set_hotkey_manager", "clone"}}
    \cup {<<"update_config", c>> : c \in Configs}

\* the mutex an accessor locks (lib.rs 61-103); clone locks status through
\* get_status and then config through get_config (lib.rs 112-113)
MutexOf(op, pos) ==
    CASE op[1] \in {"get_status", "set_recording", "set_transcribing",
                    "set_result"} -> "status"
      [] op[1] \in {"store_audio", "take_audio"} -> "audio_data"
      [] op[1] \in {"get_config", "update_config"} -> "config"
      [] op[1] = "set_hotkey_manager" -> "hotkey_manager"
      [] op[1] = "clone" -> IF pos \in {"lock", "held"} THEN "status" ELSE "config"

\* AppState::new() has loaded or created the configuration (lib.rs 45),
\* no thread is inside an accessor
LocksIdle ==
    /\ config = [language |-> "pt"]
    /\ disk = config
    /\ hotkey_manager = None
    /\ owner = [m \in Mutexes |-> 0]
    /\ apc = [k \in Clients |-> "idle"]
    /\ aop = [k \in Clients |-> <<"none">>]

\* AppState::new() and a client of the accessors that has called nothing
AppReady ==
    /\ status = AppState_new
    /\ audio_data = None
    /\ overlay = FALSE
    /\ calls = [p \in TriggerPcs |-> 0]
    /\ ret = [path |-> "none", value |-> "none"]
    /\ spc = "idle"
    /\ workers = EmptyBag
    /\ lock = 0
    /\ kpc = [k \in Clients |-> "idle"]
    /\ kop = [k \in Clients |-> <<"none">>]
    /\ snap = AppState_new

Init ==
    /\ DaemonReady
    /\ CaptureIdle
    /\ ResampleIdle
    /\ LocksIdle
    /\ HardwareIdle
    /\ AppReady
    /\ world \in Worlds

\* --------------------------------- AppState accessors, lock by lock
\* (SpecStore) a client calls one accessor of the managed AppState
Accessors ==
    {<<"get_status">>}
    \cup {<<"set_recording", b>> : b \in BOOLEAN}
    \cup {<<"set_transcribing", b>> : b \in BOOLEAN}
    \cup {<<"set_result", t>> : t \in Texts}

K_call(k) ==
    /\ kpc[k] = "idle"
    /\ \E op \in Accessors : kop' = [kop EXCEPT ![k] = op]
    /\ kpc' = [kpc EXCEPT ![k] = "lock"]
    /\ UNCHANGED <<status, lock, snap>>

\* K_lock as it would be if the accessor did not wait for the mutex
K_lock_nowait(k) ==
    /\ kpc[k] = "lock"
    /\ lock' = k
    /\ kpc' = [kpc EXCEPT ![k] = "w1"]
    /\ UNCHANGED <<status, kop, snap>>

\* lib.rs 61, 65, 70, 75: self.status.lock().unwrap() blocks until the
\* mutex is free
K_lock(k) ==
    /\ kpc[k] = "lock"
    /\ lock = 0
    /\ lock' = k
    /\ kpc' = [kpc EXCEPT ![k] = "w1"]
    /\ UNCHANGED <<status, kop, snap>>

\* lib.rs 61: .clone() of the guarded AppStatus
K_get_status(k) ==
    /\ kpc[k] = "w1"
    /\ kop[k][1] = "get_status"
    /\ snap' = status
    /\ kpc' = [kpc EXCEPT ![k] = "unlock"]
    /\ UNCHANGED <<status, lock, kop>>

\* lib.rs 66: status.is_recording = recording
K_set_recording(k) ==
    /\ kpc[k] = "w1"
    /\ kop[k][1] = "set_recording"
    /\ status' = [status EXCEPT !.is_recording = kop[k][2]]
    /\ kpc' = [kpc EXCEPT ![k] = "unlock"]
    /\ UNCHANGED <<lock, kop, snap>>

\* lib.rs 71: status.is_transcribing = transcribing
K_set_transcribing(k) ==
    /\ kpc[k] = "w1"
    /\ kop[k][1] = "set_transcribing"
    /\ status' = [status EXCEPT !.is_transcribing = kop[k][2]]
    /\ kpc' = [kpc EXCEPT ![k] = "unlock"]
    /\ UNCHANGED <<lock, kop, snap>>

\* lib.rs 76: status.last_result = Some(result)
K_set_result_1(k) ==
    /\ kpc[k] = "w1"
    /\ kop[k][1] = "set_result"
    /\ status' = [status EXCEPT !.last_result = kop[k][2]]
    /\ kpc' = [kpc EXCEPT ![k] = "w2"]
    /\ UNCHANGED <<lock, kop, snap>>

\* lib.rs 77: status.is_transcribing = false
K_set_result_2(k) ==
    /\ kpc[k] = "w2"
    /\ status' = [status EXCEPT !.is_transcribing = FALSE]
    /\ kpc' = [kpc EXCEPT ![k] = "w3"]
    /\ UNCHANGED <<lock, kop, snap>>

\* lib.rs 78: status.is_recording = false
K_set_result_3(k) ==
    /\ kpc[k] = "w3"
    /\ status' = [status EXCEPT !.is_recording = FALSE]
    /\ kpc' = [kpc EXCEPT ![k] = "unlock"]
    /\ UNCHANGED <<lock, kop, snap>>

\* K_unlock as it would be if the accessor handed its MutexGuard to the
\* caller instead of dropping it
K_unlock_keep(k) ==
    /\ kpc[k] = "unlock"
    /\ kpc' = [kpc EXCEPT ![k] = "idle"]
    /\ kop' = [kop EXCEPT ![k] = <<"none">>]
    /\ UNCHANGED <<status, lock, snap>>

\* lib.rs 62, 67, 72, 79: the MutexGuard is dropped, the accessor returns
K_unlock(k) ==
    /\ kpc[k] = "unlock"
    /\ lock' = 0
    /\ kpc' = [kpc EXCEPT ![k] = "idle"]
    /\ kop' = [kop EXCEPT ![k] = <<"none">>]
    /\ UNCHANGED <<status, snap>>

\* lib.rs 346, 390, 404, 431, 448: between two accessor calls the thread
\* enters a call that blocks it (record_for_seconds, Transcriber::new,
\* transcribe, type_text, thread::sleep) for any length of time
K_external(k) ==
    /\ kpc[k] = "idle"
    /\ kpc' = [kpc EXCEPT ![k] = "external"]
    /\ UNCHANGED <<status, lock, kop, snap>>

\* the blocking call returns
K_return(k) ==
    /\ kpc[k] = "external"
    /\ kpc' = [kpc EXCEPT ![k] = "idle"]
    /\ UNCHANGED <<status, lock, kop, snap>>

Client(k) ==
    \/ K_call(k)
    \/ K_external(k)
    \/ K_return(k)
    \/ K_lock(k)
    \/ K_get_status(k)
    \/ K_set_recording(k)
    \/ K_set_transcribing(k)
    \/ K_set_result_1(k)
    \/ K_set_result_2(k)
    \/ K_set_result_3(k)
    \/ K_unlock(k)

\* the accessors may be called in any status
InitStore ==
    /\ DaemonReady
    /\ CaptureIdle
    /\ ResampleIdle
    /\ LocksIdle
    /\ HardwareIdle
    /\ status \in AppStatus
    /\ audio_data = None
    /\ overlay = FALSE
    /\ calls = [p \in TriggerPcs |-> 0]
    /\ ret = [path |-> "none", value |-> "none"]
    /\ spc = "idle"
    /\ workers = EmptyBag
    /\ world = [failAt |-> "none", text |-> "ola"]
    /\ lock = 0
    /\ kpc = [k \in Clients |-> "idle"]
    /\ kop = [k \in Clients |-> <<"none">>]
    /\ snap = status

NextStore ==
    \E k \in Clients :
      /\ Client(k)
      /\ UNCHANGED <<audio_data, overlay, calls, ret, spc, workers, world>>
      /\ UNCHANGED <<daemonVars, captureVars, resampleVars, lockVars, hardwareVars>>

SpecStore == InitStore /\ [][NextStore]_vars

\* ------------------------------ AppState: the four mutexes, lock by lock
\* (SpecLocks) threads call the accessors of the managed AppState and
\* AppState::clone; a thread is at the acquisition of a mutex, inside the
\* body that holds it, or between two calls.  The value clone builds is
\* modelled in T_spawn.
\* a thread calls update_config (lib.rs 135)
A_call(k) ==
    /\ apc[k] = "idle"
    /\ \E c \in Configs : aop' = [aop EXCEPT ![k] = <<"update_config", c>>]
    /\ apc' = [apc EXCEPT ![k] = "save"]
    /\ UNCHANGED <<status, audio_data, config, disk, hotkey_manager, owner>>

\* lib.rs 61, 65, 70, 75, 82, 87, 92, 103: a thread calls an accessor, or
\* AppState::clone (lib.rs 326), whose first statement is .lock().unwrap(),
\* which waits until the mutex is free
A_enter(k) ==
    /\ apc[k] = "idle"
    /\ \E op \in LockOps :
         /\ op[1] # "update_config"
         /\ owner[MutexOf(op, "lock")] = 0
         /\ owner' = [owner EXCEPT ![MutexOf(op, "lock")] = k]
         /\ aop' = [aop EXCEPT ![k] = op]
    /\ apc' = [apc EXCEPT ![k] = "held"]
    /\ UNCHANGED <<status, audio_data, config, disk, hotkey_manager>>

\* lib.rs 97, and lib.rs 92 called from clone (lib.rs 113): .lock().unwrap()
\* waits until the mutex is free
A_lock(k) ==
    /\ apc[k] \in {"lock", "lock2"}
    /\ owner[MutexOf(aop[k], apc[k])] = 0
    /\ owner' = [owner EXCEPT ![MutexOf(aop[k], apc[k])] = k]
    /\ apc' = [apc EXCEPT ![k] = IF apc[k] = "lock" THEN "held" ELSE "held2"]
    /\ UNCHANGED <<status, audio_data, config, disk, hotkey_manager, aop>>

\* the accessor returns: its MutexGuard is dropped
Release(k, m) ==
    /\ owner' = [owner EXCEPT ![m] = 0]
    /\ apc' = [apc EXCEPT ![k] = "idle"]
    /\ aop' = [aop EXCEPT ![k] = <<"none">>]

\* lib.rs 60-62
A_get_status(k) ==
    /\ apc[k] = "held" /\ aop[k][1] = "get_status"
    /\ Release(k, "status")
    /\ UNCHANGED <<status, audio_data, config, disk, hotkey_manager>>

\* lib.rs 64-67
A_set_recording(k) ==
    /\ apc[k] = "held" /\ aop[k][1] = "set_recording"
    /\ \E recording \in BOOLEAN : status' = set_recording(status, recording)
    /\ Release(k, "status")
    /\ UNCHANGED <<audio_data, config, disk, hotkey_manager>>

\* lib.rs 69-72
A_set_transcribing(k) ==
    /\ apc[k] = "held" /\ aop[k][1] = "set_transcribing"
    /\ \E transcribing \in BOOLEAN : status' = set_transcribing(status, transcribing)
    /\ Release(k, "status")
    /\ UNCHANGED <<audio_data, config, disk, hotkey_manager>>

\* lib.rs 74-79
A_set_result(k) ==
    /\ apc[k] = "held" /\ aop[k][1] = "set_result"
    /\ \E result \in Texts : status' = set_result(status, result)
    /\ Release(k, "status")
    /\ UNCHANGED <<audio_data, config, disk, hotkey_manager>>

\* lib.rs 81-84
A_store_audio(k) ==
    /\ apc[k] = "held" /\ aop[k][1] = "store_audio"
    /\ audio_data' = "samples"
    /\ Release(k, "audio_data")
    /\ UNCHANGED <<status, config, disk, hotkey_manager>>

\* lib.rs 86-89
A_take_audio(k) ==
    /\ apc[k] = "held" /\ aop[k][1] = "take_audio"
    /\ audio_data' = None
    /\ Release(k, "audio_data")
    /\ UNCHANGED <<status, config, disk, hotkey_manager>>

\* lib.rs 91-93
A_get_config(k) ==
    /\ apc[k] = "held" /\ aop[k][1] = "get_config"
    /\ Release(k, "config")
    /\ UNCHANGED <<status, audio_data, config, disk, hotkey_manager>>

\* lib.rs 96, config/mod.rs 81-94: config.save() succeeds
A_save(k) ==
    /\ apc[k] = "save"
    /\ disk' = aop[k][2]
    /\ apc' = [apc EXCEPT ![k] = "lock"]
    /\ UNCHANGED <<status, audio_data, config, hotkey_manager, owner, aop>>

\* A_save_fails as it would be if update_config stored the configuration
\* before saving it
A_save_fails_after_store(k) ==
    /\ apc[k] = "save"
    /\ (disk' = disk \/ disk' = Partial)
    /\ config' = aop[k][2]
    /\ apc' = [apc EXCEPT ![k] = "err"]
    /\ UNCHANGED <<status, audio_data, hotkey_manager, owner, aop>>

\* lib.rs 96: config.save()? fails and update_config returns the error.
\* config/mod.rs 82-92: the path, the directory, the serialisation or the
\* write fails; a write that fails part-way leaves a truncated file
A_save_fails(k) ==
    /\ apc[k] = "save"
    /\ (disk' = disk \/ disk' = Partial)
    /\ apc' = [apc EXCEPT ![k] = "err"]
    /\ UNCHANGED <<status, audio_data, config, hotkey_manager, owner, aop>>

\* lib.rs 135: the command returns the error as a string
A_update_config_err(k) ==
    /\ apc[k] = "err"
    /\ apc' = [apc EXCEPT ![k] = "idle"]
    /\ aop' = [aop EXCEPT ![k] = <<"none">>]
    /\ UNCHANGED <<status, audio_data, config, disk, hotkey_manager, owner>>

\* lib.rs 97-100
A_update_config(k) ==
    /\ apc[k] = "held" /\ aop[k][1] = "update_config"
    /\ config' = aop[k][2]
    /\ Release(k, "config")
    /\ UNCHANGED <<status, audio_data, disk, hotkey_manager>>

\* lib.rs 102-105
A_set_hotkey_manager(k) ==
    /\ apc[k] = "held" /\ aop[k][1] = "set_hotkey_manager"
    /\ hotkey_manager' = "manager"
    /\ Release(k, "hotkey_manager")
    /\ UNCHANGED <<status, audio_data, config, disk>>

\* A_clone_status as it would be if clone kept the guard of status while it
\* called get_config
A_clone_status_keep(k) ==
    /\ apc[k] = "held" /\ aop[k][1] = "clone"
    /\ apc' = [apc EXCEPT ![k] = "lock2"]
    /\ UNCHANGED <<status, audio_data, config, disk, hotkey_manager, owner, aop>>

\* lib.rs 112: status: Mutex::new(self.get_status()); get_status has
\* returned, its guard dropped, before the next field is evaluated
A_clone_status(k) ==
    /\ apc[k] = "held" /\ aop[k][1] = "clone"
    /\ owner' = [owner EXCEPT !["status"] = 0]
    /\ apc' = [apc EXCEPT ![k] = "lock2"]
    /\ UNCHANGED <<status, audio_data, config, disk, hotkey_manager, aop>>

\* lib.rs 113-115: config: Mutex::new(self.get_config()), audio_data and
\* hotkey_manager: Mutex::new(None)
A_clone_config(k) ==
    /\ apc[k] = "held2" /\ aop[k][1] = "clone"
    /\ Release(k, "config")
    /\ UNCHANGED <<status, audio_data, config, disk, hotkey_manager>>

Thread(k) ==
    \/ A_call(k)
    \/ A_enter(k)
    \/ A_lock(k)
    \/ A_get_status(k)
    \/ A_set_recording(k)
    \/ A_set_transcribing(k)
    \/ A_set_result(k)
    \/ A_store_audio(k)
    \/ A_take_audio(k)
    \/ A_get_config(k)
    \/ A_save(k)
    \/ A_save_fails(k)
    \/ A_update_config_err(k)
    \/ A_update_config(k)
    \/ A_set_hotkey_manager(k)
    \/ A_clone_status(k)
    \/ A_clone_config(k)

\* the configuration file holds either configuration when the app starts
InitLocks ==
    /\ DaemonReady
    /\ CaptureIdle
    /\ ResampleIdle
    /\ AppReady
    /\ world = [failAt |-> "none", text |-> "ola"]
    /\ config \in Configs
    /\ disk = config
    /\ hotkey_manager = None
    /\ owner = [m \in Mutexes |-> 0]
    /\ apc = [k \in Clients |-> "idle"]
    /\ aop = [k \in Clients |-> <<"none">>]
    /\ HardwareIdle

NextLocks ==
    \E k \in Clients :
      /\ Thread(k)
      /\ UNCHANGED <<overlay, calls, ret, spc, workers, world>>
      /\ UNCHANGED <<storeVars, daemonVars, captureVars, resampleVars>>
      /\ UNCHANGED hardwareVars

SpecLocks == InitLocks /\ [][NextLocks]_vars

Trigger ==
    \/ T_call
    \/ T_guard_recording
    \/ T_guard_transcribing
    \/ T_show_overlay
    \/ T_set_recording
    \/ T_spawn

StopRecording ==
    \/ S_set_recording
    \/ S_set_transcribing
    \/ S_hide_overlay

Worker(r) ==
    \/ W_record_start(r)
    \/ W_record_end(r)
    \/ W_process(r)
    \/ W_exit(r)

Next ==
    \/ Trigger
    \/ StopRecording
    \/ \E r \in BagToSet(workers) : Worker(r)

Spec == Init /\ [][Next]_vars

\* A thread that has started a call runs on: the scheduler is fair to the
\* threads inside trigger_transcription_flow and stop_recording and to the
\* workers. Nothing forces a new trigger or a new stop_recording.
Fairness ==
    /\ WF_vars(T_guard_recording)
    /\ WF_vars(T_guard_transcribing)
    /\ WF_vars(T_show_overlay)
    /\ WF_vars(T_set_recording)
    /\ WF_vars(T_spawn)
    /\ WF_vars(S_set_transcribing)
    /\ WF_vars(S_hide_overlay)
    /\ WF_vars(\E r \in BagToSet(workers) : Worker(r))

SpecFair == Spec /\ Fairness

\* ------------------------------------------- run_daemon (src/main.rs)
\* tray.rs 4-9
AppEvent == {"StartRecording", "StopRecording", "OpenSettings", "Quit"}

\* main.rs 87-93: an event source holding a clone of event_tx sends an event;
\* the channel is unbounded and keeps the events in order. busy records
\* whether the loop was inside a run when the event was sent
D_send(e) ==
    /\ dret = "none"
    /\ Len(event_rx) < MaxQueue
    /\ event_rx' = Append(event_rx, [event |-> e, busy |-> dpc # "recv"])
    /\ UNCHANGED <<dpc, dret>>
    /\ UNCHANGED <<pipeVars, storeVars, captureVars, resampleVars, lockVars, hardwareVars>>

\* main.rs 109-113 and 139-149: event_rx.recv() and the match on the event
D_recv ==
    /\ dpc = "recv"
    /\ event_rx # <<>>
    /\ event_rx' = Tail(event_rx)
    /\ CASE Head(event_rx).event = "StartRecording" ->
               dpc' = "new" /\ UNCHANGED dret
         [] Head(event_rx).event = "Quit" ->
               dpc' = "returned" /\ dret' = "Ok"
         [] OTHER -> UNCHANGED <<dpc, dret>>
    /\ UNCHANGED <<pipeVars, storeVars, captureVars, resampleVars, lockVars, hardwareVars>>

\* a call followed by `?`: on Ok the loop body goes on at position "to", on
\* Err run_daemon returns the error
D_try(to) ==
    /\ \E ok \in BOOLEAN :
         IF ok THEN dpc' = to /\ UNCHANGED dret
               ELSE dpc' = "returned" /\ dret' = "Err"
    /\ UNCHANGED event_rx
    /\ UNCHANGED <<pipeVars, storeVars, captureVars, resampleVars, lockVars, hardwareVars>>

\* main.rs 117: AudioRecorder::new()?
D_new ==
    /\ dpc = "new"
    /\ D_try("record")

\* main.rs 118: recorder.record_for_seconds(5)?
D_record ==
    /\ dpc = "record"
    /\ D_try("load")

\* main.rs 125: Transcriber::new(&model_path)?
D_load ==
    /\ dpc = "load"
    /\ D_try("transcribe")

\* main.rs 126: transcriber.transcribe(&audio_data, &config.language)?
D_transcribe ==
    /\ dpc = "transcribe"
    /\ D_try("type_text")

\* main.rs 133: input.type_text(&text)?
D_type_text ==
    /\ dpc = "type_text"
    /\ D_try("sleep")

\* main.rs 136-137: sleep two seconds, send Hide, back to recv
D_sleep ==
    /\ dpc = "sleep"
    /\ dpc' = "recv"
    /\ UNCHANGED <<event_rx, dret>>
    /\ UNCHANGED <<pipeVars, storeVars, captureVars, resampleVars, lockVars, hardwareVars>>

InitDaemon ==
    /\ Init
    /\ world = [failAt |-> "none", text |-> "hello world"]

NextDaemon ==
    \/ \E e \in AppEvent : D_send(e)
    \/ D_recv
    \/ D_new
    \/ D_record
    \/ D_load
    \/ D_transcribe
    \/ D_type_text
    \/ D_sleep

SpecDaemon == InitDaemon /\ [][NextDaemon]_vars

\* --------------------------- AudioRecorder::record_for_seconds (audio.rs)
\* F32 and I16 have a callback; U16 stands for every other cpal SampleFormat
SampleFormats == {"F32", "I16", "U16"}

\* sample rates, in units of 8000 Hz
SampleRates == {1, 2}

\* 16000 Hz, the rate the transcriber takes
TargetRate == 2

\* what the device passes to the callback: f32 values (written num/den as
\* <<num, den>>) or i16 values
RawSamples(format) ==
    IF format = "F32" THEN {<<1, 2>>, <<-1, 1>>} ELSE {-32768, 16384}

\* audio.rs 59 and 75: the f32 pushed for one raw sample
Convert(format, sample) ==
    IF format = "F32" THEN sample ELSE <<sample, 32768>>

Chunks(format) ==
    UNION {[1..n -> RawSamples(format)] : n \in 0..MaxChunk}

\* push as it would be without the test of vec.len()
push_unbounded(vec, sample, needed) == Append(vec, sample)

\* audio.rs 58-60 and 74-76: if vec.len() < samples_needed { vec.push(..) }
push(vec, sample, needed) ==
    IF Len(vec) < needed THEN Append(vec, sample) ELSE vec

\* audio.rs 55-61 and 71-77: the callback, for &sample in data
RECURSIVE callback(_, _, _, _)
callback(vec, data, format, needed) ==
    IF data = <<>> THEN vec
    ELSE callback(push(vec, Convert(format, Head(data)), needed),
                  Tail(data), format, needed)

NoReturn == [result |-> "none", error |-> "none", samples |-> <<>>, resample |-> <<>>]

Failed(error) == [NoReturn EXCEPT !.result = "Err", !.error = error]

\* audio.rs 39-44: samples_needed, the empty Vec
R_call ==
    /\ rpc = "call"
    /\ samples_needed' = recorder.sample_rate * seconds
    /\ recorded_samples' = <<>>
    /\ rpc' = "build"
    /\ UNCHANGED <<recorder, seconds, stream, delivered, stderr, rret>>
    /\ UNCHANGED <<pipeVars, storeVars, daemonVars, resampleVars, lockVars, hardwareVars>>

\* R_build as it would be with a callback for every sample format
R_build_any ==
    /\ rpc = "build"
    /\ \E ok \in BOOLEAN :
         IF ok THEN stream' = "built" /\ rpc' = "play" /\ UNCHANGED rret
               ELSE /\ rret' = Failed("build_input_stream")
                    /\ rpc' = "returned"
                    /\ UNCHANGED stream
    /\ UNCHANGED <<recorder, seconds, samples_needed, recorded_samples, delivered,
                   stderr>>
    /\ UNCHANGED <<pipeVars, storeVars, daemonVars, resampleVars, lockVars, hardwareVars>>

\* audio.rs 50-84: build_input_stream(..)? for F32 and I16, bail! otherwise
R_build ==
    /\ rpc = "build"
    /\ IF recorder.sample_format \in {"F32", "I16"}
         THEN \E ok \in BOOLEAN :
                IF ok THEN stream' = "built" /\ rpc' = "play" /\ UNCHANGED rret
                      ELSE /\ rret' = Failed("build_input_stream")
                           /\ rpc' = "returned"
                           /\ UNCHANGED stream
         ELSE /\ rret' = Failed("unsupported sample format")
              /\ rpc' = "returned"
              /\ UNCHANGED stream
    /\ UNCHANGED <<recorder, seconds, samples_needed, recorded_samples, delivered,
                   stderr>>
    /\ UNCHANGED <<pipeVars, storeVars, daemonVars, resampleVars, lockVars, hardwareVars>>

\* R_play as it would be if the stream outlived a failing play()
R_play_leak ==
    /\ rpc = "play"
    /\ \E ok \in BOOLEAN :
         IF ok THEN stream' = "playing" /\ rpc' = "sleep" /\ UNCHANGED rret
               ELSE /\ rret' = Failed("play")
                    /\ rpc' = "returned"
                    /\ UNCHANGED stream
    /\ UNCHANGED <<recorder, seconds, samples_needed, recorded_samples, delivered,
                   stderr>>
    /\ UNCHANGED <<pipeVars, storeVars, daemonVars, resampleVars, lockVars, hardwareVars>>

\* audio.rs 86: stream.play()?; on Err the stream is dropped with the frame
R_play ==
    /\ rpc = "play"
    /\ \E ok \in BOOLEAN :
         IF ok THEN stream' = "playing" /\ rpc' = "sleep" /\ UNCHANGED rret
               ELSE /\ rret' = Failed("play")
                    /\ stream' = "dropped"
                    /\ rpc' = "returned"
    /\ UNCHANGED <<recorder, seconds, samples_needed, recorded_samples, delivered,
                   stderr>>
    /\ UNCHANGED <<pipeVars, storeVars, daemonVars, resampleVars, lockVars, hardwareVars>>

\* audio.rs 55-61 and 71-77: the device thread calls the callback with a
\* chunk while record_for_seconds sleeps
R_callback ==
    /\ rpc = "sleep"
    /\ stream = "playing"
    /\ \E data \in Chunks(recorder.sample_format) :
         /\ delivered + Len(data) <= MaxFrames
         /\ delivered' = delivered + Len(data)
         /\ recorded_samples' = callback(recorded_samples, data,
                                         recorder.sample_format, samples_needed)
    /\ UNCHANGED <<recorder, seconds, samples_needed, stream, stderr, rpc, rret>>
    /\ UNCHANGED <<pipeVars, storeVars, daemonVars, resampleVars, lockVars, hardwareVars>>

\* audio.rs 46-48: the device reports a stream error; err_fn prints it
R_error ==
    /\ rpc = "sleep"
    /\ stream = "playing"
    /\ stderr < MaxStreamErrors
    /\ stderr' = stderr + 1
    /\ UNCHANGED <<recorder, seconds, samples_needed, recorded_samples, stream,
                   delivered, rpc, rret>>
    /\ UNCHANGED <<pipeVars, storeVars, daemonVars, resampleVars, lockVars, hardwareVars>>

\* audio.rs 89-91: the sleep ends, drop(stream)
R_drop ==
    /\ rpc = "sleep"
    /\ stream' = "dropped"
    /\ rpc' = "clone"
    /\ UNCHANGED <<recorder, seconds, samples_needed, recorded_samples,
                   delivered, stderr, rret>>
    /\ UNCHANGED <<pipeVars, storeVars, daemonVars, resampleVars, lockVars, hardwareVars>>

\* audio.rs 93-102: clone the samples; return them, through
\* resample(&samples, sample_rate, 16000) when the rate is not 16000
R_return ==
    /\ rpc = "clone"
    /\ rret' = [NoReturn EXCEPT
                  !.result = "Ok",
                  !.samples = recorded_samples,
                  !.resample = IF recorder.sample_rate # TargetRate
                                 THEN <<recorder.sample_rate, TargetRate>>
                                 ELSE <<>>]
    /\ rpc' = "returned"
    /\ UNCHANGED <<recorder, seconds, samples_needed, recorded_samples,
                   stream, delivered, stderr>>
    /\ UNCHANGED <<pipeVars, storeVars, daemonVars, resampleVars, lockVars, hardwareVars>>

\* a recorder on any device, asked for any duration
InitCapture ==
    /\ DaemonReady
    /\ AppReady
    /\ ResampleIdle
    /\ LocksIdle
    /\ HardwareIdle
    /\ world = [failAt |-> "none", text |-> "hello world"]
    /\ recorder \in [sample_format : SampleFormats, sample_rate : SampleRates]
    /\ seconds \in 0..MaxSeconds
    /\ samples_needed = 0
    /\ recorded_samples = <<>>
    /\ stream = "none"
    /\ delivered = 0
    /\ stderr = 0
    /\ rpc = "call"
    /\ rret = NoReturn

NextCapture ==
    \/ R_call
    \/ R_build
    \/ R_play
    \/ R_callback
    \/ R_error
    \/ R_drop
    \/ R_return

SpecCapture == InitCapture /\ [][NextCapture]_vars

\* ---------------------------------------------------------------------
\* Arithmetic of AudioRecorder::resample (src/audio.rs 105-125).
\*
\* The function computes in f64 and f32.  A mantissa of 53 bits does not
\* fit the integers of the model checker, so a natural number is a
\* sequence of limbs of 15 bits, least significant first, without leading
\* zero limbs, and a float is a sign, such a mantissa and a binary
\* exponent.  Every operation computes the exact result and rounds it to
\* the precision of its type, to nearest, ties to even, as IEEE 754 does.
\* The values of the model stay far inside the exponent range of both
\* types, so no operation overflows or goes subnormal.
\* ---------------------------------------------------------------------

\* radix of a limb
LimbBits == 15
Base == 32768

\* significand bits of the two types
PrecF64 == 53
PrecF32 == 24

RECURSIVE Pow2(_)
Pow2(k) == IF k = 0 THEN 1 ELSE 2 * Pow2(k - 1)

RECURSIVE Trim(_)
Trim(a) ==
    IF a # <<>> /\ a[Len(a)] = 0 THEN Trim(SubSeq(a, 1, Len(a) - 1)) ELSE a

\* an integer of the model as limbs, and back
RECURSIVE Big(_)
Big(n) == IF n = 0 THEN <<>> ELSE <<n % Base>> \o Big(n \div Base)

RECURSIVE Small(_)
Small(a) == IF a = <<>> THEN 0 ELSE a[1] + Base * Small(Tail(a))

Limb(a, i) == IF i <= Len(a) THEN a[i] ELSE 0

BigAdd(a, b) ==
    LET n == IF Len(a) > Len(b) THEN Len(a) ELSE Len(b)
        RECURSIVE go(_, _)
        go(i, c) ==
            IF i > n THEN (IF c = 0 THEN <<>> ELSE <<c>>)
            ELSE LET s == Limb(a, i) + Limb(b, i) + c
                 IN  <<s % Base>> \o go(i + 1, s \div Base)
    IN  go(1, 0)

\* a - b, for a >= b
BigSub(a, b) ==
    LET RECURSIVE go(_, _)
        go(i, borrow) ==
            IF i > Len(a) THEN <<>>
            ELSE LET d == a[i] - Limb(b, i) - borrow
                 IN  IF d < 0 THEN <<d + Base>> \o go(i + 1, 1)
                              ELSE <<d>> \o go(i + 1, 0)
    IN  Trim(go(1, 0))

\* -1, 0, 1 as a < b, a = b, a > b
BigCmp(a, b) ==
    LET RECURSIVE go(_)
        go(i) ==
            IF i = 0 THEN 0
            ELSE IF a[i] < b[i] THEN -1
            ELSE IF a[i] > b[i] THEN 1
            ELSE go(i - 1)
    IN  IF Len(a) < Len(b) THEN -1
        ELSE IF Len(a) > Len(b) THEN 1
        ELSE go(Len(a))

\* a * k, for 0 <= k < Base
BigMulSmall(a, k) ==
    LET RECURSIVE go(_, _)
        go(i, c) ==
            IF i > Len(a) THEN (IF c = 0 THEN <<>> ELSE <<c>>)
            ELSE LET p == a[i] * k + c
                 IN  <<p % Base>> \o go(i + 1, p \div Base)
    IN  Trim(go(1, 0))

RECURSIVE BigMul(_, _)
BigMul(a, b) ==
    IF a = <<>> \/ b = <<>> THEN <<>>
    ELSE BigAdd(BigMulSmall(a, b[1]), Trim(<<0>> \o BigMul(a, Tail(b))))

\* floor(a / d), for 0 < d < Base
BigDivSmall(a, d) ==
    LET RECURSIVE go(_, _)
        go(i, r) ==
            IF i = 0 THEN <<>>
            ELSE LET cur == r * Base + a[i]
                 IN  go(i - 1, cur % d) \o <<cur \div d>>
    IN  Trim(go(Len(a), 0))

\* a * 2^k
ShiftL(a, k) ==
    IF a = <<>> THEN <<>>
    ELSE [i \in 1..(k \div LimbBits) |-> 0] \o BigMulSmall(a, Pow2(k % LimbBits))

\* floor(a / 2^k)
ShiftR(a, k) ==
    IF k \div LimbBits >= Len(a) THEN <<>>
    ELSE BigDivSmall(SubSeq(a, (k \div LimbBits) + 1, Len(a)), Pow2(k % LimbBits))

RECURSIVE SmallBits(_)
SmallBits(x) == IF x = 0 THEN 0 ELSE 1 + SmallBits(x \div 2)

\* number of bits of a
BitLen(a) ==
    IF a = <<>> THEN 0 ELSE LimbBits * (Len(a) - 1) + SmallBits(a[Len(a)])

\* quotient and remainder of a by b, for b > 0, by long division: one
\* limb of the quotient for each limb of a, from the most significant
BigDivMod(a, b) ==
    LET \* the largest digit whose product with b does not exceed r
        digit(r) ==
            LET RECURSIVE find(_, _)
                find(j, acc) ==
                    IF j < 0 THEN acc
                    ELSE IF BigCmp(BigMulSmall(b, acc + Pow2(j)), r) <= 0
                         THEN find(j - 1, acc + Pow2(j))
                         ELSE find(j - 1, acc)
            IN  find(LimbBits - 1, 0)
        RECURSIVE go(_)
        go(d) ==
            IF d.i = 0 THEN [q |-> d.q, r |-> d.r]
            ELSE LET r1 == Trim(<<a[d.i]>> \o d.r)
                     qd == digit(r1)
                 IN  go([i |-> d.i - 1,
                         q |-> Trim(<<qd>> \o d.q),
                         r |-> BigSub(r1, BigMulSmall(b, qd))])
    IN  go([i |-> Len(a), q |-> <<>>, r |-> <<>>])

\* ---- floats: (-1)^s * m * 2^e, or an infinity, or NaN ----------------

NaN == [k |-> "nan", s |-> 0, m |-> <<>>, e |-> 0]
Inf(s) == [k |-> "inf", s |-> s, m |-> <<>>, e |-> 0]
Zero == [k |-> "fin", s |-> 0, m |-> <<>>, e |-> 0]

\* the one representation of a finite value: an odd mantissa, or Zero
\* (-0.0 and 0.0, which compare equal, are both Zero)
RECURSIVE Canon(_, _, _)
Canon(s, m, e) ==
    IF m = <<>> THEN Zero
    ELSE IF m[1] = 0 THEN Canon(s, Tail(m), e + LimbBits)
    ELSE IF m[1] % 2 = 0 THEN Canon(s, ShiftR(m, 1), e + 1)
    ELSE [k |-> "fin", s |-> s, m |-> m, e |-> e]

\* m * 2^e rounded to p significant bits, to nearest, ties to even
Round(p, s, m, e) ==
    IF BitLen(m) <= p THEN Canon(s, m, e)
    ELSE LET drop == BitLen(m) - p
             q    == ShiftR(m, drop)
             r    == BigSub(m, ShiftL(q, drop))
             half == BigCmp(r, ShiftL(<<1>>, drop - 1))
             up   == half > 0 \/ (half = 0 /\ q[1] % 2 = 1)
         IN  Canon(s, IF up THEN BigAdd(q, <<1>>) ELSE q, e + drop)

\* `n as f64` for an unsigned integer n given as limbs
FromBig(p, n) == Round(p, 0, n, 0)

FNeg(a) == IF a.k = "nan" \/ a = Zero THEN a ELSE [a EXCEPT !.s = 1 - @]

IsZero(a) == a.k = "fin" /\ a.m = <<>>

\* a / b
FDiv(p, a, b) ==
    IF a.k = "nan" \/ b.k = "nan" THEN NaN
    ELSE IF a.k = "inf" THEN (IF b.k = "inf" THEN NaN ELSE Inf((a.s + b.s) % 2))
    ELSE IF b.k = "inf" THEN Zero
    ELSE IF IsZero(b) THEN (IF IsZero(a) THEN NaN ELSE Inf((a.s + b.s) % 2))
    ELSE IF IsZero(a) THEN Zero
    ELSE LET want  == p + 2 + BitLen(b.m) - BitLen(a.m)
             shift == IF want > 0 THEN want ELSE 0
             d     == BigDivMod(ShiftL(a.m, shift), b.m)
             \* one more bit below the quotient: is the division inexact
             m     == BigAdd(BigMulSmall(d.q, 2), IF d.r = <<>> THEN <<>> ELSE <<1>>)
         IN  Round(p, (a.s + b.s) % 2, m, a.e - b.e - shift - 1)

\* a * b
FMul(p, a, b) ==
    IF a.k = "nan" \/ b.k = "nan" THEN NaN
    ELSE IF a.k = "inf" \/ b.k = "inf"
         THEN (IF IsZero(a) \/ IsZero(b) THEN NaN ELSE Inf((a.s + b.s) % 2))
    ELSE Round(p, (a.s + b.s) % 2, BigMul(a.m, b.m), a.e + b.e)

\* a + b
FAdd(p, a, b) ==
    IF a.k = "nan" \/ b.k = "nan" THEN NaN
    ELSE IF a.k = "inf" THEN (IF b.k = "inf" /\ b.s # a.s THEN NaN ELSE a)
    ELSE IF b.k = "inf" THEN b
    ELSE IF IsZero(a) THEN b
    ELSE IF IsZero(b) THEN a
    ELSE LET e  == IF a.e < b.e THEN a.e ELSE b.e
             ma == ShiftL(a.m, a.e - e)
             mb == ShiftL(b.m, b.e - e)
             c  == BigCmp(ma, mb)
         IN  IF a.s = b.s THEN Round(p, a.s, BigAdd(ma, mb), e)
             ELSE IF c = 0 THEN Zero
             ELSE IF c > 0 THEN Round(p, a.s, BigSub(ma, mb), e)
             ELSE Round(p, b.s, BigSub(mb, ma), e)

\* a - b
FSub(p, a, b) == FAdd(p, a, FNeg(b))

\* floor of |a| for a finite a, as limbs
FloorBig(a) ==
    IF a.e >= 0 THEN ShiftL(a.m, a.e) ELSE ShiftR(a.m, 0 - a.e)

\* a.floor()
FFloor(a) ==
    IF a.k # "fin" THEN a
    ELSE IF a.s = 0 \/ a.e >= 0 THEN Canon(a.s, FloorBig(a), 0)
    ELSE Canon(1, BigAdd(FloorBig(a), <<1>>), 0)

\* usize::MAX, 2^64 - 1
UsizeMax == <<32767, 32767, 32767, 32767, 15>>

\* `a as usize`: toward zero, saturating, NaN to 0
AsUsize(a) ==
    IF a.k = "nan" THEN <<>>
    ELSE IF a.s = 1 THEN <<>>
    ELSE IF a.k = "inf" THEN UsizeMax
    ELSE IF BigCmp(FloorBig(a), UsizeMax) > 0 THEN UsizeMax
    ELSE FloorBig(a)

\* ---------------------------------------------------------------------
\* AudioRecorder::resample (src/src/audio.rs 105-125)
\* ---------------------------------------------------------------------

\* f32 samples: 0.1f32, -0.5, 0.75
SampleList ==
    << Canon(0, Big(13421773), -27), Canon(1, <<1>>, -1), Canon(0, <<3>>, -2) >>

\* the inputs of a length: the samples in turn, from each starting point
Inputs(len) ==
    { [i \in 1..len |-> SampleList[((i + k) % Len(SampleList)) + 1]] :
        k \in 1..(IF len = 0 THEN 1 ELSE Len(SampleList)) }

\* sample rates in Hz; 0 stands for the rates no device reports
Rates == {0, 1, 3, 11, 15, 16000, 48000}

F64(n) == FromBig(PrecF64, Big(n))

One == Canon(0, <<1>>, 0)

Returned(output) == [result |-> "Ok", output |-> output]

Panic == [result |-> "panic", output |-> <<>>]

NotCalled == [result |-> "none", output |-> <<>>]

\* audio.rs 110
ratio(from_rate, to_rate) == FDiv(PrecF64, F64(to_rate), F64(from_rate))

\* audio.rs 111
output_len(len, from_rate, to_rate) ==
    AsUsize(FMul(PrecF64, F64(len), ratio(from_rate, to_rate)))

\* audio.rs 115
src_idx(i, r) == FDiv(PrecF64, F64(i), r)

\* audio.rs 116
src_idx_floor(i, r) == AsUsize(FFloor(src_idx(i, r)))

\* audio.rs 117 without the .min(input.len() - 1)
src_idx_ceil_unclamped(floor, len) == floor + 1

\* audio.rs 117, for a non-empty input
src_idx_ceil(floor, len) == IF floor + 1 < len - 1 THEN floor + 1 ELSE len - 1

\* audio.rs 118
t(i, r) == FSub(PrecF64, src_idx(i, r), FromBig(PrecF64, src_idx_floor(i, r)))

\* audio.rs 120
sample(input, i, r) ==
    LET lo  == Small(src_idx_floor(i, r))
        hi  == src_idx_ceil(lo, Len(input))
        t32 == Round(PrecF32, t(i, r).s, t(i, r).m, t(i, r).e)
    IN  FAdd(PrecF32, FMul(PrecF32, input[lo + 1], FSub(PrecF32, One, t32)),
                      FMul(PrecF32, input[hi + 1], t32))

\* the loop as it would be over 0..=output_len
loop_range_inclusive(n) == 0..n

\* audio.rs 114: for i in 0..output_len
loop_range(n) == 0..(n - 1)

\* audio.rs 110-124.  Vec::with_capacity panics over isize::MAX bytes, and
\* an iteration whose index is past the input panics.
interpolate(input, from_rate, to_rate) ==
    LET r == ratio(from_rate, to_rate)
        n == output_len(Len(input), from_rate, to_rate)
    IN  IF BitLen(n) > 61 THEN Panic
        ELSE IF \E i \in loop_range(Small(n)) :
                    \/ BigCmp(src_idx_floor(i, r), Big(Len(input))) >= 0
                    \/ src_idx_ceil(Small(src_idx_floor(i, r)), Len(input))
                          >= Len(input)
             THEN Panic
        ELSE Returned([j \in 1..Cardinality(loop_range(Small(n))) |->
                          sample(input, j - 1, r)])

\* resample as it would be without the early return
resample_interpolating(input, from_rate, to_rate) ==
    interpolate(input, from_rate, to_rate)

\* audio.rs 105-125
resample(input, from_rate, to_rate) ==
    IF from_rate = to_rate THEN Returned(input)
    ELSE interpolate(input, from_rate, to_rate)

\* any input of a few samples, resampled between any two rates
InitResample ==
    /\ DaemonReady
    /\ AppReady
    /\ CaptureIdle
    /\ LocksIdle
    /\ HardwareIdle
    /\ world = [failAt |-> "none", text |-> "hello world"]
    /\ \E len \in 0..MaxInput : resample_input \in Inputs(len)
    /\ resample_from \in Rates
    /\ resample_to \in Rates
    /\ \/ resample_from = 0
       \/ Len(resample_input) * resample_to <= MaxOutput * resample_from
    /\ resampled = NotCalled

\* audio.rs 98: Self::resample(&samples, rate, 16000), for any arguments
Z_resample ==
    /\ resampled = NotCalled
    /\ resampled' = resample(resample_input, resample_from, resample_to)
    /\ UNCHANGED <<resample_input, resample_from, resample_to>>
    /\ UNCHANGED <<pipeVars, storeVars, daemonVars, captureVars, lockVars, hardwareVars>>

NextResample == Z_resample

SpecResample == InitResample /\ [][NextResample]_vars

\* ---------------- HardwareDetector::check_huggingface_model (hardware/mod.rs)
\* A model_id is the set of the size words it contains.  The size of the
\* weight files is in KiB (file sizes are multiples of 1 KiB), 0 when the
\* API gave no information; u64 does not overflow for the sizes of files.

\* hardware/mod.rs 37-53
get_system_info ==
    [available_memory_gb |-> available_memory_gb,
     has_gpu |-> FALSE,
     gpu_vram_gb |-> <<>>]

\* hardware/mod.rs 184-220
estimate_model_size(model_id, total_kib) ==
    IF total_kib > 0 THEN total_kib \div 1024
    ELSE IF "tiny" \in model_id THEN 150
    ELSE IF "small" \in model_id THEN 500
    ELSE IF "medium" \in model_id THEN 1500
    ELSE IF "large" \in model_id \/ "turbo" \in model_id THEN 3000
    ELSE IF "base" \in model_id THEN 300
    ELSE 500

\* hardware/mod.rs 140
ram_required_gb(estimated_size_mb) ==
    (((estimated_size_mb * 2) \div 1024) + 1024) \div 1024

\* hardware/mod.rs 153-161
performance_rating(ram) ==
    IF ram <= 2 THEN "rapido"
    ELSE IF ram <= 4 THEN "moderado"
    ELSE IF ram <= 8 THEN "lento"
    ELSE "muito lento"

\* hardware/mod.rs 118-182
check_huggingface_model(model_id, total_kib) ==
    LET estimated_size_mb == estimate_model_size(model_id, total_kib)
        ram == ram_required_gb(estimated_size_mb)
        vram_required_gb == IF get_system_info.has_gpu THEN <<ram>> ELSE <<>>
        sys_info == get_system_info
        can_run == sys_info.available_memory_gb >= ram
        has_enough_vram ==
            IF vram_required_gb = <<>> THEN TRUE
            ELSE (IF sys_info.gpu_vram_gb = <<>> THEN 0
                  ELSE sys_info.gpu_vram_gb[1]) >= vram_required_gb[1]
    IN  [result |-> "Ok",
         can_run |-> can_run /\ has_enough_vram,
         estimated_size_mb |-> estimated_size_mb,
         ram_required_gb |-> ram,
         vram_required_gb |-> vram_required_gb,
         performance_rating |-> performance_rating(ram),
         recommendation |->
             IF ~can_run THEN "memoria insuficiente"
             ELSE IF ram > 4 THEN "considere usar um modelo menor"
             ELSE "modelo adequado"]

\* the size words a model_id contains
ModelIds ==
    {{}, {"tiny"}, {"small"}, {"medium"}, {"large"}, {"turbo"}, {"base"},
     {"base", "large"}}

\* sizes of the weight files: none listed, half a MiB, 1500 MiB, 3000 MiB,
\* and 600000 MiB
TotalSizes == {0, 512, 1536000, 3072000, 614400000}

\* any model on a machine with any amount of available memory
InitHardware ==
    /\ DaemonReady
    /\ CaptureIdle
    /\ ResampleIdle
    /\ LocksIdle
    /\ AppReady
    /\ world = [failAt |-> "none", text |-> "hello world"]
    /\ hf_model_id \in ModelIds
    /\ hf_total_kib \in TotalSizes
    /\ available_memory_gb \in 0..MaxMemoryGb
    /\ compatibility = NotChecked

\* main.rs 170: hardware.check_huggingface_model(&model_id)
H_check ==
    /\ compatibility = NotChecked
    /\ compatibility' = check_huggingface_model(hf_model_id, hf_total_kib)
    /\ UNCHANGED <<hf_model_id, hf_total_kib, available_memory_gb>>
    /\ UNCHANGED <<pipeVars, storeVars, daemonVars, captureVars, resampleVars,
                   lockVars>>

NextHardware == H_check

SpecHardware == InitHardware /\ [][NextHardware]_vars

\* ================================================================ claims
Live == BagToSet(workers)

\* number of live workers whose position is in pcs
RunsAt(pcs) ==
    LET S == {r \in Live : r.pc \in pcs}
    IN BagCardinality([r \in S |-> workers[r]])

\* the capture-through-injection sequence of the worker
CaptureToInjectPcs == {"new", "recording", "set_recording",
                       "set_transcribing", "take_audio", "get_model", "load",
                       "transcribe", "injector", "type"}

CallsInFlight == calls["guard"] + calls["guard2"] + calls["show"]
                 + calls["set_recording"] + calls["spawn"]

\* r is the only thing in flight: no other worker, no trigger, no stop_recording
Alone(r) == workers = SetToBag({r}) /\ CallsInFlight = 0 /\ spc = "idle"

Admits == ~status.is_recording /\ ~status.is_transcribing

GuardPcs == {"guard", "guard2"}

\* a guard of trigger_transcription_flow reads a busy status in this step
ReadsBusy(p) ==
    /\ calls'[p] < calls[p]
    /\ IF p = "guard" THEN status.is_recording ELSE status.is_transcribing

\* C1: at most one worker is inside the capture-through-injection sequence
\* at any time, and at most one holds the audio input stream.
C1_AtMostOneRun ==
    /\ RunsAt(CaptureToInjectPcs) <= 1
    /\ RunsAt({"recording"}) <= 1

\* C2: when a run has ended and nothing else is in flight, the status store
\* has is_recording = false and is_transcribing = false.
C2_RunEndsWithFlagsCleared ==
    \A r \in Live : (r.pc = "done" /\ Alone(r)) => Admits

\* C3: after a run has ended, the status store eventually admits the next
\* trigger (both flags false).
C3_EventuallyAdmits ==
    (\E r \in Live : r.pc = "done") ~> Admits

\* C4: from the moment the admitted trigger has set is_recording until its
\* worker has left the capture-through-injection sequence, the status store
\* reads Recording or Transcribing.
C4_InFlightReadsBusy ==
    (calls["spawn"] > 0 \/ RunsAt(CaptureToInjectPcs) > 0) => ~Admits

C6_RejectedHasNoEffect ==
    [][\A p \in GuardPcs :
         ReadsBusy(p) => /\ calls' = [calls EXCEPT ![p] = @ - 1]
                         /\ UNCHANGED <<status, audio_data, overlay, workers>>]_vars

\* a trigger has been rejected while a worker was recording and the overlay
\* was shown
C6_Witness ==
    /\ ret.path = "skipped"
    /\ RunsAt({"recording"}) = 1
    /\ overlay
    /\ Phase(status) = "Recording"

\* C7: a run whose capture succeeded, in a world where the model is found and
\* the transcriber returns a text, ends with phase Idle and that text in
\* last_result.
C7_SuccessStoresText ==
    \A r \in Live :
       (r.pc = "done" /\ r.capture = "ok" /\ world.failAt = "none" /\ Alone(r))
         => (Phase(status) = "Idle" /\ status.last_result = world.text)

\* failing exits of the capture
CaptureFailed(r) == r.capture \in {"no_recorder", "record_error"}

C9_InjectionFailureKeepsText ==
    \A r \in Live :
       (r.pc = "done" /\ r.capture = "ok"
          /\ world.failAt \in {"injector", "type"} /\ Alone(r))
         => (Phase(status) = "Idle" /\ status.last_result = world.text)

\* C10: set_result(t) leaves the status {false, false, t} whatever it was,
\* and no get_status copies the status between the first and the last write
\* of a set_result.
C10_SetResultAtomic ==
    [][\A k \in Clients :
         /\ (kop[k][1] = "set_result" /\ kpc[k] = "w3" /\ kpc'[k] = "unlock")
              => status' = [is_recording |-> FALSE, is_transcribing |-> FALSE,
                            last_result |-> kop[k][2]]
         /\ (kop[k][1] = "get_status" /\ kpc[k] = "w1" /\ kpc'[k] = "unlock")
              => ~ \E j \in Clients : kpc[j] \in {"w2", "w3"}]_vars

\* a set_result has completed on a status that read Recording when it was
\* called, while a get_status was waiting for the mutex
C10_Witness ==
    \E k, j \in Clients :
       /\ kop[k][1] = "set_result" /\ kpc[k] = "unlock"
       /\ status = [is_recording |-> FALSE, is_transcribing |-> FALSE,
                    last_result |-> kop[k][2]]
       /\ snap.is_recording /\ snap.last_result # kop[k][2]
       /\ kop[j][1] = "get_status" /\ kpc[j] = "lock"

\* worker q takes this step and becomes r2
Stepped(q, r2) ==
    /\ CopiesIn(q, workers') < CopiesIn(q, workers)
    /\ CopiesIn(r2, workers') > CopiesIn(r2, workers)

\* C11: last_result changes only in a step that is the first write of
\* set_result (the worker's call at lib.rs 437, or a client's call of the
\* accessor), and then to the text passed; set_recording, set_transcribing,
\* stop_recording, rejected and admitted triggers and failing runs leave it
\* as it was.
C11_LastResultOnlyBySetResult ==
    [][status'.last_result # status.last_result =>
         \/ \E r \in Live : r.pc = "set_result" /\ status'.last_result = world.text
         \/ \E k \in Clients : /\ kpc[k] = "w1" /\ kop[k][1] = "set_result"
                                /\ status'.last_result = kop[k][2]]_vars

\* a trigger has been rejected, a run has failed and ended, a stop_recording
\* is under way, and last_result is still what AppState::new gave it
C11_Witness ==
    /\ status.last_result = None
    /\ ret.path = "skipped"
    /\ spc = "hide"
    /\ \E r \in Live : r.pc = "done" /\ "transcription-error" \in r.notes

\* C12: is_recording and is_transcribing are never both true.
C12_OnePhase == ~(status.is_recording /\ status.is_transcribing)

\* C13: a step of a worker never changes its state_clone: no status write
\* and no audio hand-off of a run goes to a copy of the AppState.
C13_NoCopyMutated ==
    [][\A q \in Live : \A r2 \in BagToSet(workers') :
         Stepped(q, r2) => r2.clone = q.clone]_vars

\* C14: a thread blocked in capture, transcriber loading, transcription,
\* injection or the grace-period sleep does not hold the status mutex, and
\* when no thread is inside an accessor body the mutex is free: a get_status
\* waits only for the body of another accessor.
C14_NoLockAcrossExternalCalls ==
    /\ \A k \in Clients : kpc[k] = "external" => lock # k
    /\ (\A k \in Clients : kpc[k] \in {"idle", "lock", "external"}) => lock = 0

\* a get_status has copied the status while another thread was blocked in
\* an external call it entered after a set_transcribing(true)
C14_Witness ==
    \E k, j \in Clients :
       /\ kpc[k] = "external" /\ status.is_transcribing
       /\ kop[j][1] = "get_status" /\ kpc[j] = "unlock" /\ lock = j
       /\ snap = status

\* C15: while the daemon runs, an event waiting in the channel can be
\* received: the thread that receives the events is never kept inside the
\* capture-transcribe-inject sequence.
C15_EventThreadStaysFree ==
    (dret = "none" /\ event_rx # <<>>) => ENABLED D_recv

\* C16: an event sent while a run was in flight never starts a run.
C16_BusyTriggerNeverStartsRun ==
    [][(dpc = "recv" /\ dpc' = "new") => ~Head(event_rx).busy]_vars

\* C17: run_daemon never returns an error: no failure of the pipeline ends
\* the event loop.
C17_FailureKeepsLoopAlive == dret # "Err"

\* C18: no worker calls a step more than once; a worker that has created
\* its recorder has called the recording once; a finished run whose capture
\* succeeded has called the transcription once if the model was found and
\* loaded, and the injection once if the text was returned and the injector
\* created.
C18_EachStepOnce ==
    \A r \in Live :
       /\ \A s \in Steps : r.tries[s] <= 1
       /\ (r.pc # "new" /\ r.capture # "no_recorder") => r.tries["record"] = 1
       /\ (r.pc = "done" /\ r.capture = "ok"
             /\ world.failAt \notin {"model", "load"})
            => r.tries["transcribe"] = 1
       /\ (r.pc = "done" /\ r.capture = "ok" /\ world.failAt \in {"type", "none"})
            => r.tries["inject"] = 1

\* C19: a worker step that leads to the worker's return is the end of a
\* completed run or has emitted "transcription-error", and the step that
\* emits "transcription-error" leaves the overlay hidden.
C19_FailingExitNotifiesAndHides ==
    [][\A q \in Live : \A r2 \in BagToSet(workers') :
         Stepped(q, r2) =>
           /\ r2.pc \in {"clear_transcribing", "done"}
                => \/ "transcription-error" \in r2.notes
                   \/ "transcription-complete" \in r2.notes
           /\ "transcription-error" \in (r2.notes \ q.notes) => ~overlay']_vars

\* a run that found no audio has emitted the error and hidden the overlay,
\* and has not yet cleared is_transcribing
C19_Witness ==
    \E r \in Live :
       /\ r.pc = "clear_transcribing" /\ r.capture = "ok"
       /\ "transcription-error" \in r.notes
       /\ ~overlay /\ status.is_transcribing

\* C20: the buffer never holds more than sample_rate * seconds samples,
\* which is samples_needed once computed; every step keeps the samples
\* already stored, in their order; and once the buffer is full a callback
\* leaves it as it is.
C20_BufferBounded ==
    [][/\ Len(recorded_samples') <= recorder.sample_rate * seconds
       /\ rpc # "call" => samples_needed = recorder.sample_rate * seconds
       /\ Len(recorded_samples') >= Len(recorded_samples)
       /\ SubSeq(recorded_samples', 1, Len(recorded_samples)) = recorded_samples
       /\ (rpc = "sleep" /\ Len(recorded_samples) = samples_needed)
            => recorded_samples' = recorded_samples]_vars

\* the buffer of an i16 device is full and the device has delivered more
\* samples than it holds
C20_Witness ==
    /\ recorder.sample_format = "I16"
    /\ stream = "playing"
    /\ samples_needed > 1
    /\ Len(recorded_samples) = samples_needed
    /\ delivered > samples_needed

\* C21: when record_for_seconds has returned, on any path, the stream it
\* built, if any, has been dropped.
C21_StreamReleasedOnReturn ==
    rpc = "returned" => stream \in {"none", "dropped"}

\* record_for_seconds has returned the error of play() and the stream it
\* had built is dropped
C21_Witness ==
    rpc = "returned" /\ rret.error = "play" /\ stream = "dropped"

\* C22: with a sample format other than F32 and I16, record_for_seconds
\* builds no stream, never reaches its sleep, receives no sample and
\* returns the unsupported-format error.
C22_OtherFormatsFail ==
    recorder.sample_format \notin {"F32", "I16"} =>
      /\ stream = "none"
      /\ rpc \in {"call", "build", "returned"}
      /\ delivered = 0
      /\ rpc = "returned" => rret = Failed("unsupported sample format")

\* a recording of some seconds on a u16 device has returned
C22_Witness ==
    /\ recorder.sample_format = "U16"
    /\ seconds > 0
    /\ rpc = "returned"
    /\ rret.result = "Err" /\ rret.samples = <<>>

\* C28: a recording during which the device reported a stream error does
\* not return Ok.
C28_StreamErrorFailsRun ==
    (rpc = "returned" /\ stderr > 0) => rret.result = "Err"

\* floor(len * to_rate / from_rate), in integers
ExactLen == (Len(resample_input) * resample_to) \div resample_from

\* resample has returned, or panicked
Resampled == resampled # NotCalled

\* C23: with equal rates resample returns its input, whatever the input.
C23_EqualRatesIdentity ==
    (Resampled /\ resample_from = resample_to) =>
        resampled = Returned(resample_input)

\* resample has returned a non-empty input unchanged, the rates being equal
C23_Witness ==
    /\ Resampled
    /\ resample_from = resample_to
    /\ Len(resample_input) > 1
    /\ resampled.result = "Ok" /\ resampled.output = resample_input

\* C24: for a non-empty input and a positive from_rate other than to_rate,
\* the output has floor(len * to_rate / from_rate) samples.
C24_OutputLenExact ==
    (/\ Resampled
     /\ resample_input # <<>>
     /\ resample_from > 0
     /\ resample_from # resample_to) =>
        /\ resampled.result = "Ok"
        /\ Len(resampled.output) = ExactLen

\* C25: an empty input gives an empty output for any two rates, without a
\* panic.
C25_EmptyInEmptyOut ==
    (Resampled /\ resample_input = <<>>) => resampled = Returned(<<>>)

\* resample has returned for an empty input and a from_rate of 0
C25_Witness ==
    /\ Resampled
    /\ resample_input = <<>>
    /\ resample_from = 0 /\ resample_to > 0
    /\ resampled.result = "Ok"

\* C26: for an input of one sample and from_rate other than to_rate, every
\* sample of the output equals that sample.
C26_OneSampleRepeated ==
    (/\ Resampled
     /\ Len(resample_input) = 1
     /\ resample_from > 0
     /\ resample_from # resample_to) =>
        /\ resampled.result = "Ok"
        /\ \A j \in 1..Len(resampled.output) :
              resampled.output[j] = resample_input[1]

\* the trigger emits "Recording..." to the overlay in this step
EmitsRecording == calls'["set_recording"] > calls["set_recording"]

\* a worker emits the notification in this step
Emits(name) ==
    \E q \in BagToSet(workers), r2 \in BagToSet(workers') :
        Stepped(q, r2) /\ name \in r2.notes /\ name \notin q.notes

\* C27: a lifecycle notification is emitted only when the store already
\* holds its state: "Recording..." with is_recording set, "Transcribing..."
\* with is_transcribing set, "transcription-complete" with last_result set.
C27_NotifiedAfterStored ==
    [][/\ EmitsRecording => status.is_recording
       /\ Emits("Transcribing...") => status.is_transcribing
       /\ Emits("transcription-complete") => status.last_result = world.text]_vars

\* C29: while the worker of an admitted trigger is still recording and no
\* trigger or stop_recording is under way, the store reads is_recording =
\* true, so that a trigger issued now is rejected at the guard.
C29_RecordingHeldWhileRecording ==
    \A r \in Live :
        (r.pc \in {"new", "recording"} /\ Alone(r)) => status.is_recording

\* worker q hides the overlay in this step
HidesOverlay(q) ==
    /\ overlay /\ ~overlay'
    /\ \E r2 \in BagToSet(workers') : Stepped(q, r2)

\* C30: the hide at the exit of a run that has finished its recording does
\* not happen while another admitted run is in Recording, its overlay
\* shown and its worker not yet through its recording.
C30_HideSparesOtherRun ==
    [][\A q \in Live :
         (HidesOverlay(q) /\ q.capture = "ok") =>
             /\ calls["spawn"] = 0
             /\ \A r \in Live : r.pc \notin {"new", "recording"}]_vars

\* the output indices of the loop of resample, when it is entered
OutputIndices ==
    LET n == output_len(Len(resample_input), resample_from, resample_to)
    IN  IF BitLen(n) > 61 THEN {} ELSE loop_range(Small(n))

\* the index src_idx_floor of output index i
Lo(i) == src_idx_floor(i, ratio(resample_from, resample_to))

\* the index src_idx_ceil of output index i
Hi(i) == src_idx_ceil(Small(Lo(i)), Len(resample_input))

\* C31: for a non-empty input and from_rate other than to_rate, both source
\* indices of every output index of the loop are at most len(input) - 1,
\* and resample returns without a panic on an index.
C31_IndicesInBounds ==
    (/\ Resampled
     /\ resample_input # <<>>
     /\ resample_from # resample_to) =>
        /\ \A i \in OutputIndices :
              /\ BigCmp(Lo(i), Big(Len(resample_input) - 1)) <= 0
              /\ Hi(i) <= Len(resample_input) - 1
        /\ OutputIndices # {} => resampled.result = "Ok"

\* resample has returned for an upsampling of several samples in which the
\* last output index reads the last sample and the min clamps the upper
\* index
C31_Witness ==
    /\ Resampled
    /\ Len(resample_input) > 1
    /\ 0 < resample_from /\ resample_from < resample_to
    /\ resampled.result = "Ok"
    /\ \E i \in OutputIndices :
          /\ Small(Lo(i)) = Len(resample_input) - 1
          /\ Hi(i) = Len(resample_input) - 1

\* the mutexes thread k holds
Held(k) == {m \in Mutexes : owner[m] = k}

\* thread k is at a .lock() of mutex m, which another thread holds
WaitsFor(k, m) ==
    /\ apc[k] \in {"lock", "lock2"}
    /\ m = MutexOf(aop[k], apc[k])
    /\ owner[m] # 0

\* C32: no thread holds two mutexes of AppState; a thread at a .lock() or
\* outside the accessors holds none, in clone and update_config too; so a
\* thread that waits for a mutex waits for a thread that is inside an
\* accessor body and waits for nothing.
C32_NoNestedLocks ==
    \A k \in Clients :
       /\ Cardinality(Held(k)) <= 1
       /\ apc[k] \notin {"held", "held2"} => Held(k) = {}
       /\ \A m \in Mutexes :
             WaitsFor(k, m) => /\ owner[m] # k
                               /\ apc[owner[m]] \in {"held", "held2"}

\* a clone has copied the status and waits for the config mutex, which a
\* thread inside update_config holds; the status mutex is free
C32_Witness ==
    \E k, j \in Clients :
       /\ aop[k][1] = "clone" /\ WaitsFor(k, "config")
       /\ owner["config"] = j /\ aop[j][1] = "update_config"
       /\ owner["status"] = 0

\* C33: a step of update_config that fails, and the return of its error,
\* leave the in-memory configuration as it is; the configuration changes
\* only in the step in which an update_config whose save succeeded stores
\* its argument and returns, so that it holds the new configuration when
\* update_config returns Ok.
C33_UpdateConfigAllOrNothing ==
    [][/\ \A k \in Clients :
            (\/ apc[k] = "save" /\ apc'[k] = "err"
             \/ apc[k] = "err" /\ apc'[k] = "idle") => config' = config
       /\ \A k \in Clients :
            (aop[k][1] = "update_config" /\ apc[k] = "held" /\ apc'[k] = "idle")
               => config' = aop[k][2]
       /\ config' # config =>
            \E k \in Clients :
               /\ aop[k][1] = "update_config" /\ apc[k] = "held"
               /\ apc'[k] = "idle"]_vars

\* an update_config whose write failed part-way is about to return its
\* error, and the memory holds a configuration other than its argument
C33_Witness ==
    \E k \in Clients :
       /\ apc[k] = "err"
       /\ disk = Partial
       /\ config \in Configs /\ config # aop[k][2]

\* twice the estimated size plus 1 GB, in whole gigabytes
ExactRam == (compatibility.estimated_size_mb * 2 + 1024) \div 1024

\* C34: ram_required_gb is twice the estimated model size plus 1 GB, in
\* whole gigabytes, and a model is said to run only with that much
\* available memory.
C34_RamRequired ==
    compatibility # NotChecked =>
        /\ compatibility.ram_required_gb = ExactRam
        /\ compatibility.can_run => available_memory_gb >= ExactRam

====
